---- MODULE Spec2Model ----
(***************************************************************************)
(* cargo-expand, src/main.rs: the nightly re-exec guard, the toolchain     *)
(* run with its filtered diagnostic channel, the parse / sanitize / select *)
(* stage, the rustfmt edition fallback and the presentation, as one        *)
(* sequential state machine.                                               *)
(*                                                                         *)
(* Text is a sequence of characters.  A diagnostic line and a version      *)
(* report are sequences of fragments, `contains` being "some fragment is   *)
(* the needle".  syn, quote and rustfmt are external: they are modelled on *)
(* a small item grammar  File ::= (Name Body ";")*  in which "#" is a      *)
(* character no file may hold and "!" is a compiler-placed doc comment.    *)
(* File-system calls on the scratch directory are taken to succeed.        *)
(***************************************************************************)
EXTENDS Integers, Sequences, FiniteSets, TLC

VARIABLES
    opts,       \* Args: [themes, item, ugly]
    env,        \* environment: [RUSTFMT, installed]
    cap,        \* [lines, units]: how much the toolchain of this run may emit
    chain,      \* the processes of the re-exec chain, innermost last
    pc,         \* position of the innermost process
    rustfmt,    \* the local `rustfmt` of cargo_expand: "unset", "None", "Some"
    tmpdir,     \* the scratch directory: "none", "created", "configured"
    channel,    \* the toolchain's diagnostic channel, while the toolchain is there
    pos,        \* lines of the channel consumed by filter_err
    forwarded,  \* lines filter_err wrote to the error stream
    readErr,    \* read_line returned Err
    tool,       \* [state, code]: the toolchain, and the code filter_err returns
    expanded,   \* [exists, text]: the output file as the toolchain left it
    content,    \* the local `content` of cargo_expand
    outfile,    \* [exists, text]: the scratch file
    parsed,     \* "unset", "ok", "error": what syn::parse_file returned
    calls,      \* the edition of every rustfmt invocation, in order
    outcomes,   \* the outcome of every rustfmt invocation, in order
    stdout,     \* [kind, text]: what was written to standard output
    diag,       \* cargo-expand's own messages on the error stream, in order
    ret,        \* [kind, code]: the Result<i32> cargo_expand returned
    exitcode    \* the exit code of the innermost process, once pc = "exit"

vars == <<opts, env, cap, chain, pc, rustfmt, tmpdir, channel, pos, forwarded,
          readErr, tool, expanded, content, outfile, parsed, calls, outcomes,
          stdout, diag, ret, exitcode>>

----------------------------------------------------------------------------
(* Bounds *)

MaxLines == 2
MaxUnits == 2
MaxHops == 2

----------------------------------------------------------------------------
(* Sequences *)

RECURSIVE Flatten(_)
Flatten(ss) == IF ss = <<>> THEN <<>> ELSE Head(ss) \o Flatten(Tail(ss))

SeqsUpTo(S, n) == UNION {[1..k -> S] : k \in 0..n}

StartsWith(s, p) == Len(s) >= Len(p) /\ SubSeq(s, 1, Len(p)) = p

Occurs(s, p) == \E i \in 1..(Len(s) - Len(p) + 1) : SubSeq(s, i, i + Len(p) - 1) = p

\* str::replace: every non-overlapping match, leftmost first
RECURSIVE Replace(_, _, _)
Replace(s, from, to) ==
    IF Len(s) < Len(from) THEN s
    ELSE IF StartsWith(s, from)
         THEN to \o Replace(SubSeq(s, Len(from) + 1, Len(s)), from, to)
         ELSE <<Head(s)>> \o Replace(Tail(s), from, to)

\* str::matches(p).count(): the non-overlapping matches, leftmost first
RECURSIVE Count(_, _)
Count(s, p) ==
    IF Len(s) < Len(p) THEN 0
    ELSE IF StartsWith(s, p)
         THEN 1 + Count(SubSeq(s, Len(p) + 1, Len(s)), p)
         ELSE Count(Tail(s), p)

----------------------------------------------------------------------------
(* Toolchain probe *)

\* what cargo --version may give: no process, bytes that are not UTF-8, or a report
VersionOutcomes ==
    { <<"spawn_err">>, <<"not_utf8">>,
      <<"cargo 1", ".56.0 (4ed5d137b 2021-10-04)">>,
      <<"cargo 1", ".58.0-", "nightly", " (2e2a16e98 2021-11-08)">>,
      <<"cargo 0", ".19.0">> }

\* what cargo +nightly --version may give
PlusOutcomes == {"success", "failure", "spawn_err"}

Contains(line, s) == \E i \in 1..Len(line) : line[i] = s

definitely_not_nightly(out) ==
    IF out = <<"spawn_err">> \/ out = <<"not_utf8">> THEN FALSE
    ELSE StartsWith(out, <<"cargo 1">>) /\ ~Contains(out, "nightly")

maybe_nightly(out) == ~definitely_not_nightly(out)

can_run_plus_nightly(out) == out = "success"

\* the three tests of line 55, each evaluated only if the ones before it are false
Probe(marker, version, plus) ==
    [ marker |-> marker,
      notNightly |-> IF marker THEN "skipped"
                     ELSE IF definitely_not_nightly(version) THEN "yes" ELSE "no",
      plusNightly |-> IF marker \/ maybe_nightly(version) THEN "skipped"
                      ELSE IF can_run_plus_nightly(plus) THEN "yes" ELSE "no" ]

RunDirectly(p) == p.marker \/ p.notNightly = "no" \/ p.plusNightly = "no"

\* variant: the child inherits the environment of its parent unchanged
ChildMarkerInherited == chain[Len(chain)].marker

\* nightly.env(NO_RUN_NIGHTLY, ""): the marker in the child's environment
ChildMarker == TRUE

\* status.code(), None being a death by signal, which is no success
RelayedCode(status) == IF status = <<>> THEN 1 ELSE status[1]

Ok(code) == [kind |-> "ok", code |-> code]
Err == [kind |-> "err", code |-> 0]
NoResult == [kind |-> "none", code |-> 0]

\* main: the exit code of the process
ExitCode(r) == IF r.kind = "ok" THEN r.code ELSE 1

----------------------------------------------------------------------------
(* Options and environment *)

NoItem == <<>>

\* Display of a selector: the segments joined by "::"
RECURSIVE Display(_)
Display(sel) ==
    IF Len(sel) = 1 THEN sel[1] ELSE sel[1] \o "::" \o Display(Tail(sel))
Selectors == { <<"f">>, <<"h">> }

ArgsSet == [themes : BOOLEAN, item : {NoItem} \cup Selectors, ugly : BOOLEAN]

EnvSet == { [RUSTFMT |-> "unset", installed |-> TRUE],
            [RUSTFMT |-> "unset", installed |-> FALSE],
            [RUSTFMT |-> "", installed |-> TRUE],
            [RUSTFMT |-> "/usr/bin/rustfmt", installed |-> FALSE] }

which_rustfmt(e) ==
    IF e.RUSTFMT # "unset"
    THEN (IF e.RUSTFMT = "" THEN "None" ELSE "Some")
    ELSE (IF e.installed THEN "Some" ELSE "None")

\* variant: a selector without a formatter is let through
OptionCheckNoFormatter(args, e) ==
    IF args.item # NoItem /\ args.ugly THEN [refused |-> "ugly", rustfmt |-> "unset"]
    ELSE IF args.ugly THEN [refused |-> "no", rustfmt |-> "None"]
    ELSE [refused |-> "no", rustfmt |-> which_rustfmt(e)]

\* the match on (&args.item, args.ugly)
OptionCheck(args, e) ==
    IF args.item # NoItem /\ args.ugly THEN [refused |-> "ugly", rustfmt |-> "unset"]
    ELSE IF args.item # NoItem
         THEN (IF which_rustfmt(e) = "None"
               THEN [refused |-> "rustfmt", rustfmt |-> "None"]
               ELSE [refused |-> "no", rustfmt |-> "Some"])
    ELSE IF args.ugly THEN [refused |-> "no", rustfmt |-> "None"]
    ELSE [refused |-> "no", rustfmt |-> which_rustfmt(e)]

----------------------------------------------------------------------------
(* Process runner *)

Whitespace == {" ", "\t"}

discarded_lines ==
    { "ignoring specified output filename because multiple outputs were requested",
      "ignoring specified output filename for 'link' output because multiple outputs were requested",
      "ignoring --out-dir flag due to -o flag",
      "ignoring -C extra-filename flag due to -o flag",
      "due to multiple output types requested, the explicitly specified output file name will be adapted for each output type",
      "warning emitted",
      "warnings emitted",
      ") generated " }

ignore_cargo_err(line) ==
    \/ \A i \in 1..Len(line) : line[i] \in Whitespace
    \/ \E s \in discarded_lines : Contains(line, s)

\* bytes that are not UTF-8: read_line gives Err
BadLine == <<"<invalid utf-8>">>

LineSet ==
    { <<"error[E0308]: ", "mismatched types">>,
      <<"note: ", "expected u8">>,
      <<" ", "\t">>,
      <<"warning: demo (lib", ") generated ", "1 warning">>,
      BadLine }

Channels(n) == SeqsUpTo(LineSet, n)

\* child.wait()?.code(): <<>> is a death by signal
Statuses == { <<0>>, <<101>>, <<>> }

\* .code().unwrap_or(1)
WaitCode(status) == IF status = <<>> THEN 1 ELSE status[1]

\* variant: an empty output always gives 1
EmptyOutputCodeAlwaysOne(code) == 1

\* Ok(if code == 0 { 1 } else { code })
EmptyOutputCode(code) == IF code = 0 THEN 1 ELSE code

----------------------------------------------------------------------------
(* Expanded text, and the external parser, printer and formatter *)

DollarCrate == <<"$", "c", "r", "a", "t", "e">>

\* "Ξcrate": the character Ξ is written "Xi"
DOLLAR_CRATE_PLACEHOLDER == <<"Xi", "c", "r", "a", "t", "e">>

Names == {"f", "g"}
Layout == {" ", "\n"}

\* the pieces the toolchain's output is made of
Units ==
    { <<"f", ";">>,
      <<"g">> \o DollarCrate \o <<";">>,
      <<"f", "!">> \o DollarCrate \o <<";">>,
      <<"g">> \o DOLLAR_CRATE_PLACEHOLDER \o <<";">>,
      <<"#">>,
      DollarCrate,
      <<"$">>,
      DOLLAR_CRATE_PLACEHOLDER }

Texts(n) == { Flatten(us) : us \in SeqsUpTo(Units, n) }

NoFile == [exists |-> FALSE, text |-> <<>>]
File(text) == [exists |-> TRUE, text |-> text]

\* what the toolchain may leave at the output path
Files(n) == {NoFile} \cup { File(t) : t \in Texts(n) }

RECURSIVE Chunks(_)
Chunks(s) ==
    IF s = <<>> THEN <<>>
    ELSE IF ~Contains(s, ";") THEN <<s>>
    ELSE LET i == CHOOSE k \in 1..Len(s) : s[k] = ";" /\ \A j \in 1..(k - 1) : s[j] # ";"
         IN  <<SubSeq(s, 1, i)>> \o Chunks(SubSeq(s, i + 1, Len(s)))

IsItem(ch) ==
    /\ Len(ch) >= 2
    /\ ch[1] \in Names
    /\ ch[Len(ch)] = ";"
    /\ ~Contains(ch, "#")

\* syn::parse_file
parse_file(text) ==
    LET s == SelectSeq(text, LAMBDA c : c \notin Layout)
        cs == Chunks(s)
    IN  IF \A i \in 1..Len(cs) : IsItem(cs[i])
        THEN [ok |-> TRUE,
              items |-> [i \in 1..Len(cs) |->
                            [name |-> cs[i][1], body |-> SubSeq(cs[i], 2, Len(cs[i]) - 1)]]]
        ELSE [ok |-> FALSE, items |-> <<>>]

\* edit::sanitize: the doc comments go, nothing else does
sanitize(items) ==
    [i \in 1..Len(items) |->
        [name |-> items[i].name,
         body |-> SelectSeq(items[i].body, LAMBDA c : c # "!")]]

\* Filter::apply_to on top-level items: the last segment names the item, and the
\* segments before it have no enclosing module to be compared with
apply_to(filter, items) ==
    SelectSeq(items, LAMBDA it : it.name = filter[Len(filter)])

\* quote!(#syntax_tree).to_string()
to_string(items) ==
    Flatten([i \in 1..Len(items) |-> <<items[i].name, " ">> \o items[i].body \o <<";">>])

RECURSIVE Lines(_)
Lines(s) ==
    IF s = <<>> THEN <<>>
    ELSE IF Head(s) = ";" THEN <<";", "\n">> \o Lines(Tail(s))
    ELSE <<Head(s)>> \o Lines(Tail(s))

\* rustfmt rewriting the file in place: the layout changes, the tokens stay
Format(text) == Lines(SelectSeq(text, LAMBDA c : c \notin Layout))

Substitute(text) == Replace(text, DollarCrate, DOLLAR_CRATE_PLACEHOLDER)
Restore(text) == Replace(text, DOLLAR_CRATE_PLACEHOLDER, DollarCrate)

\* variant: without the return at line 202
FilterStageNoMiss(text, item) ==
    LET sub == Substitute(text)
        tree == parse_file(sub)
    IN  IF ~tree.ok THEN [parsed |-> "error", miss |-> FALSE, text |-> sub]
        ELSE [parsed |-> "ok", miss |-> FALSE,
              text |-> to_string(IF item = NoItem THEN sanitize(tree.items)
                                 ELSE apply_to(item, sanitize(tree.items)))]

\* variant: a selector that selects nothing is a miss even if the text did not parse
FilterStageStrict(text, item) ==
    LET sub == Substitute(text)
        tree == parse_file(sub)
        kept == IF item = NoItem THEN sanitize(tree.items)
                ELSE apply_to(item, sanitize(tree.items))
    IN  IF item # NoItem /\ kept = <<>>
        THEN [parsed |-> IF tree.ok THEN "ok" ELSE "error", miss |-> TRUE, text |-> sub]
        ELSE IF ~tree.ok THEN [parsed |-> "error", miss |-> FALSE, text |-> sub]
        ELSE [parsed |-> "ok", miss |-> FALSE, text |-> to_string(kept)]

\* lines 186-206: the placeholder goes in, and if the text parses it is sanitized,
\* narrowed to the selected items and printed; miss is the return at line 202
FilterStage(text, item) ==
    LET sub == Substitute(text)
        tree == parse_file(sub)
    IN  IF ~tree.ok THEN [parsed |-> "error", miss |-> FALSE, text |-> sub]
        ELSE LET clean == sanitize(tree.items)
                 kept == IF item = NoItem THEN clean ELSE apply_to(item, clean)
             IN  IF item # NoItem /\ kept = <<>>
                 THEN [parsed |-> "ok", miss |-> TRUE, text |-> sub]
                 ELSE [parsed |-> "ok", miss |-> FALSE, text |-> to_string(kept)]

\* what one rustfmt invocation may do: exit 0, exit non-zero, or not start
FormatterOutcomes == {"success", "failure", "spawn_err"}

FirstEdition == "2018"

RetryEdition == "2015"

\* variant: a formatter that could not be started is retried too
RetryAlways(outcome) == outcome # "success"

\* if let Ok(output) = output { if !output.status.success() { ... } }
Retry(outcome) == outcome = "failure"

----------------------------------------------------------------------------
(* The program *)

NewProcess(marker) == [marker |-> marker, notNightly |-> "unset", plusNightly |-> "unset"]

Me == chain[Len(chain)]

InitWith(lines, units) ==
    /\ opts \in ArgsSet
    /\ env \in EnvSet
    /\ cap = [lines |-> lines, units |-> units]
    /\ \E marker \in BOOLEAN : chain = <<NewProcess(marker)>>
    /\ pc = "main"
    /\ rustfmt = "unset"
    /\ tmpdir = "none"
    /\ channel = <<>>
    /\ pos = 0
    /\ forwarded = <<>>
    /\ readErr = FALSE
    /\ tool = [state |-> "not run", code |-> 0]
    /\ expanded = NoFile
    /\ content = <<>>
    /\ outfile = NoFile
    /\ parsed = "unset"
    /\ calls = <<>>
    /\ outcomes = <<>>
    /\ stdout = [kind |-> "none", text |-> <<>>]
    /\ diag = <<>>
    /\ ret = NoResult
    /\ exitcode = 0

\* cargo_expand returns r after writing msgs to the error stream; main prints an
\* Err and exits with the code
Return(r, msgs) ==
    /\ ret' = r
    /\ exitcode' = ExitCode(r)
    /\ diag' = diag \o msgs \o (IF r.kind = "err" THEN <<"io error">> ELSE <<>>)
    /\ pc' = "exit"

\* cargo_expand_or_run_nightly, to the call of cargo_expand or to nightly.status();
\* a process that re-invokes keeps what its probes said
Main ==
    /\ pc = "main"
    /\ \E version \in VersionOutcomes, plus \in PlusOutcomes, spawned \in BOOLEAN :
         LET me == Probe(Me.marker, version, plus)
             probed == [chain EXCEPT ![Len(chain)] = me]
         IN  IF RunDirectly(me)
             THEN /\ pc' = "cargo_expand"
                  /\ UNCHANGED <<chain, exitcode, diag>>
             ELSE IF spawned
             THEN /\ Len(chain) <= MaxHops
                  /\ chain' = Append(probed, NewProcess(ChildMarker))
                  /\ pc' = "main"
                  /\ UNCHANGED <<exitcode, diag>>
             ELSE /\ exitcode' = ExitCode(Err)
                  /\ diag' = Append(diag, "io error")
                  /\ pc' = "exit"
                  /\ UNCHANGED chain
    /\ UNCHANGED <<opts, env, cap, rustfmt, tmpdir, channel, pos, forwarded, readErr,
                   tool, expanded, content, outfile, parsed, calls, outcomes, stdout, ret>>

\* the parent of the innermost process: status.code() of the child, lines 73-84
ChildExit ==
    /\ pc = "exit"
    /\ Len(chain) > 1
    /\ \E status \in {<<>>, <<exitcode>>} : exitcode' = RelayedCode(status)
    /\ chain' = SubSeq(chain, 1, Len(chain) - 1)
    /\ UNCHANGED <<opts, env, cap, pc, rustfmt, tmpdir, channel, pos, forwarded, readErr,
                   tool, expanded, content, outfile, parsed, calls, outcomes, stdout,
                   diag, ret>>

\* cargo_expand, lines 121-169, to the spawn of the toolchain in filter_err
CargoExpand ==
    /\ pc = "cargo_expand"
    /\ LET check == OptionCheck(opts, env)
       IN  IF opts.themes
           THEN /\ stdout' = [kind |-> "themes", text |-> <<>>]
                /\ Return(Ok(0), <<>>)
                /\ UNCHANGED <<rustfmt, tmpdir, channel, tool>>
           ELSE IF check.refused # "no"
           THEN /\ rustfmt' = check.rustfmt
                /\ Return(Ok(1), <<"cannot expand single item: " \o check.refused>>)
                /\ UNCHANGED <<stdout, tmpdir, channel, tool>>
           ELSE /\ rustfmt' = check.rustfmt
                /\ tmpdir' = "created"
                /\ \E spawned \in BOOLEAN, lines \in Channels(cap.lines) :
                     IF spawned
                     THEN /\ channel' = lines
                          /\ tool' = [tool EXCEPT !.state = "running"]
                          /\ pc' = "filter_err"
                          /\ UNCHANGED <<ret, exitcode, diag>>
                     ELSE /\ Return(Err, <<>>)
                          /\ UNCHANGED <<channel, tool>>
                /\ UNCHANGED stdout
    /\ UNCHANGED <<opts, env, cap, chain, pos, forwarded, readErr, expanded, content,
                   outfile, parsed, calls, outcomes>>

\* filter_err, one turn of the loop at lines 417-425
ReadLine ==
    /\ pc = "filter_err"
    /\ IF pos < Len(channel) /\ channel[pos + 1] # BadLine
       THEN /\ pos' = pos + 1
            /\ forwarded' = IF ignore_cargo_err(channel[pos + 1]) THEN forwarded
                            ELSE Append(forwarded, channel[pos + 1])
            /\ UNCHANGED <<pc, readErr>>
       ELSE /\ readErr' = (pos < Len(channel))
            /\ pc' = "wait"
            /\ UNCHANGED <<pos, forwarded>>
    /\ UNCHANGED <<opts, env, cap, chain, rustfmt, tmpdir, channel, tool, expanded,
                   content, outfile, parsed, calls, outcomes, stdout, diag, ret, exitcode>>

\* child.wait() at line 426, which ends filter_err and with it the pipe, and
\* cargo_expand's look at the output file, lines 171-179
Wait ==
    /\ pc = "wait"
    /\ channel' = <<>>
    /\ pos' = 0
    /\ \E status \in Statuses, file \in Files(cap.units) :
         LET code == WaitCode(status)
         IN  /\ tool' = [state |-> "exited", code |-> code]
             /\ expanded' = file
             /\ outfile' = file
             /\ IF ~file.exists
                THEN Return(Ok(1), <<>>) /\ UNCHANGED content
                ELSE IF file.text = <<>>
                THEN /\ Return(Ok(EmptyOutputCode(code)),
                               <<"ERROR: rustc produced no expanded output">>)
                     /\ UNCHANGED content
                ELSE /\ content' = file.text
                     /\ pc' = IF rustfmt = "Some" THEN "filter" ELSE "present"
                     /\ UNCHANGED <<ret, exitcode, diag>>
    /\ UNCHANGED <<opts, env, cap, chain, rustfmt, tmpdir, forwarded,
                   readErr, parsed, calls, outcomes, stdout>>

\* lines 182-209: placeholder, parse, sanitize, select, print, write, rustfmt config
Filter ==
    /\ pc = "filter"
    /\ LET r == FilterStage(content, opts.item)
       IN  /\ parsed' = r.parsed
           /\ content' = r.text
           /\ IF r.miss
              THEN /\ Return(Ok(1), <<"WARNING: no such item: " \o Display(opts.item)>>)
                   /\ UNCHANGED <<outfile, tmpdir>>
              ELSE /\ outfile' = File(r.text)
                   /\ tmpdir' = "configured"
                   /\ pc' = "rustfmt"
                   /\ UNCHANGED <<ret, exitcode, diag>>
    /\ UNCHANGED <<opts, env, cap, chain, rustfmt, channel, pos, forwarded, readErr,
                   tool, expanded, calls, outcomes, stdout>>

\* one rustfmt invocation on the scratch file
Invoke(edition, outcome) ==
    /\ calls' = Append(calls, edition)
    /\ outcomes' = Append(outcomes, outcome)
    /\ outfile' = IF outcome = "success" THEN File(Format(outfile.text)) ELSE outfile

\* lines 211-216
Rustfmt ==
    /\ pc = "rustfmt"
    /\ \E outcome \in FormatterOutcomes :
         /\ Invoke(FirstEdition, outcome)
         /\ pc' = IF Retry(outcome) THEN "retry" ELSE "readback"
    /\ UNCHANGED <<opts, env, cap, chain, rustfmt, tmpdir, channel, pos, forwarded,
                   readErr, tool, expanded, content, parsed, stdout, diag, ret, exitcode>>

\* lines 217-224
RustfmtRetry ==
    /\ pc = "retry"
    /\ \E outcome \in FormatterOutcomes : Invoke(RetryEdition, outcome)
    /\ pc' = "readback"
    /\ UNCHANGED <<opts, env, cap, chain, rustfmt, tmpdir, channel, pos, forwarded,
                   readErr, tool, expanded, content, parsed, stdout, diag, ret, exitcode>>

\* lines 227-228
ReadBack ==
    /\ pc = "readback"
    /\ content' = Restore(outfile.text)
    /\ pc' = "present"
    /\ UNCHANGED <<opts, env, cap, chain, rustfmt, tmpdir, channel, pos, forwarded,
                   readErr, tool, expanded, outfile, parsed, calls, outcomes, stdout,
                   diag, ret, exitcode>>

\* lines 231-263
Present ==
    /\ pc = "present"
    /\ stdout' = [kind |-> "expanded", text |-> content]
    /\ Return(Ok(0), <<"\n">>)
    /\ UNCHANGED <<opts, env, cap, chain, rustfmt, tmpdir, channel, pos, forwarded,
                   readErr, tool, expanded, content, outfile, parsed, calls, outcomes>>

Next ==
    \/ Main
    \/ ChildExit
    \/ CargoExpand
    \/ ReadLine
    \/ Wait
    \/ Filter
    \/ Rustfmt
    \/ RustfmtRetry
    \/ ReadBack
    \/ Present

\* the whole program on a small toolchain
Init == InitWith(MaxLines - 1, MaxUnits - 1)

Spec == Init /\ [][Next]_vars

\* the process runner on longer diagnostic channels
InitRunner == InitWith(MaxLines, MaxUnits - 1)

SpecRunner == InitRunner /\ [][Next]_vars

\* the filter and the reformatter on longer expanded texts
InitText == InitWith(0, MaxUnits)

SpecText == InitText /\ [][Next]_vars

----------------------------------------------------------------------------
(* Claims *)

Said(msg) == \E i \in 1..Len(diag) : diag[i] = msg

\* cargo_expand has been entered and has got past its option check, or has returned
Entered == pc \notin {"main", "cargo_expand"} /\ ~(pc = "exit" /\ ret.kind = "none")

\* C1: a chain of invocations holds at most one re-invocation; a process
\* re-invokes only with the marker unset, the toolchain definitely not nightly and
\* cargo +nightly --version succeeding, and its child has the marker set.
C1_OneHop ==
    /\ Len(chain) <= 2
    /\ \A i \in 1..(Len(chain) - 1) :
         /\ ~chain[i].marker
         /\ chain[i].notNightly = "yes"
         /\ chain[i].plusNightly = "yes"
         /\ chain[i + 1].marker

C1_Witness == Len(chain) = 2 /\ pc = "exit" /\ ret = Ok(0)

\* C2: when the toolchain exits with a non-zero code, cargo_expand returns that
\* code and runs no later stage, whatever the output file is.
C2_ToolchainCodeRelayed ==
    pc = "exit" /\ tool.state = "exited" /\ tool.code # 0 =>
        /\ ret = Ok(tool.code)
        /\ calls = <<>>
        /\ stdout.kind = "none"

\* C3: an output file that exists and is empty gives the "no expanded output"
\* message, exit code 1 for a toolchain code of 0 and the toolchain's code
\* otherwise, and no later stage.
C3_EmptyOutput ==
    expanded.exists /\ expanded.text = <<>> =>
        /\ pc = "exit"
        /\ Said("ERROR: rustc produced no expanded output")
        /\ ret = Ok(IF tool.code = 0 THEN 1 ELSE tool.code)
        /\ parsed = "unset"
        /\ calls = <<>>
        /\ stdout.kind = "none"

C3_Witness ==
    /\ pc = "exit"
    /\ expanded = File(<<>>)
    /\ tool.code = 101
    /\ ret = Ok(101)

\* C4: a selector that matches no item of a text that parses gives the "no such
\* item" message naming the selector and exit code 1; the formatter is not
\* invoked and nothing is presented.
C4_SelectorMiss ==
    /\ opts.item # NoItem
    /\ parsed = "ok"
    /\ \A i \in 1..Len(parse_file(Substitute(expanded.text)).items) :
         parse_file(Substitute(expanded.text)).items[i].name # opts.item[Len(opts.item)]
    => /\ pc = "exit"
       /\ ret = Ok(1)
       /\ Said("WARNING: no such item: " \o Display(opts.item))
       /\ calls = <<>>
       /\ stdout.kind = "none"

C4_Witness ==
    /\ pc = "exit"
    /\ opts.item = <<"h">>
    /\ parsed = "ok"
    /\ expanded.text = <<"f", ";">> \o (<<"g">> \o DollarCrate \o <<";">>)
    /\ ret = Ok(1)

Incompatible == opts.item # NoItem /\ (opts.ugly \/ which_rustfmt(env) = "None")

Refused ==
    /\ pc = "exit"
    /\ ret = Ok(1)
    /\ tmpdir = "none"
    /\ tool.state = "not run"
    /\ calls = <<>>
    /\ stdout.kind # "expanded"

\* C5 as stated: a selector with the ugly flag, or a selector with no formatter,
\* makes cargo_expand return 1 before the scratch directory, the toolchain, the
\* formatter or the presentation.
C5_RefusedUpFront_Stated == Entered /\ Incompatible => Refused

\* C5, amended: the same unless the list of themes is asked for; and with no
\* selector, the ugly flag or a missing formatter is no refusal: the toolchain
\* runs, the filter and the formatter do not, and a non-empty output is
\* presented as it is with exit code 0.
C5_RefusedUpFront ==
    /\ Entered /\ Incompatible /\ ~opts.themes => Refused
    /\ Entered /\ Incompatible /\ opts.themes =>
         pc = "exit" /\ ret = Ok(0) /\ stdout.kind = "themes" /\ tmpdir = "none"
    /\ Entered /\ ~opts.themes /\ opts.item = NoItem
              /\ (opts.ugly \/ which_rustfmt(env) = "None") =>
         /\ rustfmt = "None"
         /\ tmpdir = "created"
         /\ ~Said("cannot expand single item: ugly")
         /\ ~Said("cannot expand single item: rustfmt")
         /\ parsed = "unset"
         /\ calls = <<>>
         /\ (pc = "exit" /\ expanded.exists /\ expanded.text # <<>> =>
                ret = Ok(0) /\ stdout = [kind |-> "expanded", text |-> expanded.text])

C5_Witness ==
    /\ pc = "exit"
    /\ ~opts.themes
    /\ opts.item = <<"f">>
    /\ ~opts.ugly
    /\ env.RUSTFMT = ""
    /\ ret = Ok(1)
    /\ Said("cannot expand single item: rustfmt")

\* C6: the formatter is invoked at most twice, first for edition 2018; a second
\* invocation follows only a first one that exited non-zero and asks for 2015;
\* every state of the reformatter has a next step; the run ends with exit code 0
\* and presents the scratch file as read back, which is the formatter's output
\* for the attempt that succeeded and the unformatted text if none did.
C6_Reformatter ==
    /\ Len(calls) <= 2 /\ Len(outcomes) = Len(calls)
    /\ pc = "rustfmt" => calls = <<>>
    /\ pc = "retry" => calls = <<"2018">> /\ outcomes = <<"failure">>
    /\ calls # <<>> => calls[1] = "2018"
    /\ Len(calls) = 2 => calls[2] = "2015" /\ outcomes[1] = "failure"
    /\ pc \in {"rustfmt", "retry", "readback", "present"} => ENABLED Next
    /\ pc = "readback" =>
         outfile.text = IF outcomes[Len(outcomes)] = "success" THEN Format(content)
                        ELSE content
    /\ pc = "exit" /\ calls # <<>> =>
         /\ ret = Ok(0)
         /\ ~Said("io error")
         /\ stdout = [kind |-> "expanded", text |-> Restore(outfile.text)]

C6_Witness ==
    /\ pc = "exit"
    /\ calls = <<"2018", "2015">>
    /\ outcomes = <<"failure", "failure">>
    /\ ret = Ok(0)

\* C7: when the loop of filter_err has ended, the lines forwarded are the lines
\* of the channel that are text and not ignored, in the order produced.
C7_ForwardedExactly ==
    pc = "wait" =>
        forwarded = SelectSeq(channel, LAMBDA l : l # BadLine /\ ~ignore_cargo_err(l))

Skeleton(text) == SelectSeq(text, LAMBDA c : c \notin Layout /\ c # "!")

\* C8: on the formatter path with no selector, the text presented holds $crate
\* as often as the toolchain's output and at the same places among the other
\* tokens, and does not hold the stand-in.
C8_PlaceholderIntegrity ==
    pc = "exit" /\ stdout.kind = "expanded" /\ rustfmt = "Some" /\ opts.item = NoItem =>
        /\ Count(stdout.text, DollarCrate) = Count(expanded.text, DollarCrate)
        /\ Skeleton(stdout.text) = Skeleton(expanded.text)
        /\ ~Occurs(stdout.text, DOLLAR_CRATE_PLACEHOLDER)

\* C9: a text that does not parse is no error: no "no such item" failure even
\* with a selector, the text with the placeholder in it goes unchanged to the
\* scratch file and to the formatter, and the run presents it and exits 0.
C9_ParseDegradation ==
    parsed = "error" =>
        /\ pc \in {"rustfmt", "retry", "readback", "present", "exit"}
        /\ \A sel \in Selectors : ~Said("WARNING: no such item: " \o Display(sel))
        /\ tmpdir = "configured"
        /\ pc = "rustfmt" =>
             outfile = File(Substitute(expanded.text)) /\ content = outfile.text
        /\ pc # "rustfmt" => calls # <<>>
        /\ pc = "exit" =>
             /\ ret = Ok(0)
             /\ stdout.kind = "expanded"
             /\ Skeleton(stdout.text) = Skeleton(Restore(Substitute(expanded.text)))
             /\ "success" \notin {outcomes[i] : i \in 1..Len(outcomes)} =>
                    stdout.text = Restore(Substitute(expanded.text))

C9_Witness ==
    /\ pc = "exit"
    /\ parsed = "error"
    /\ opts.item = <<"h">>
    /\ expanded.text = <<"#">> \o DollarCrate
    /\ ret = Ok(0)

\* C10: a failure to spawn the toolchain, or an error reading its diagnostic
\* channel, ends cargo_expand with an Err that main prints, exit code 1; after
\* a read error no code of the toolchain is returned and no later stage runs.
C10_IoErrorsAreFatal ==
    /\ pc = "exit" /\ tmpdir = "created" /\ tool.state = "not run" =>
         ret = Err /\ exitcode = 1 /\ Said("io error")
    /\ readErr /\ pc # "wait" =>
         pc = "exit" /\ tool.state # "exited" /\ ret = Err /\ Said("io error")

====
